---- MODULE Spec2Model ----
(***************************************************************************)
(* DNS Scraper (dns_scraper.py): the dispatcher that fills a bounded task   *)
(* queue, the pool of DnsScanThread workers that run the registered         *)
(* RRTypeParser classes on each domain, RRTypeParser.fetch, the             *)
(* fetchAndStore methods of AParser / AAAAParser / DNSKEYParser with their  *)
(* per-record try/except/finally, DnsMetadata.rrsigsStore, and the RFC      *)
(* 2537/3110 decomposition of an RSA DNSKEY public key.                     *)
(*                                                                         *)
(* Python integers are unbounded; an integer that may exceed a machine      *)
(* word (the RSA exponent, maxDbExp) is kept as its big-endian base-256     *)
(* digits without leading zeros.  Byte strings are sequences of 0..255.     *)
(* Columns that are only copied from the answer into the row (ttl, flags,   *)
(* protocol, secure) are left out of the rows.                              *)
(***************************************************************************)
EXTENDS Integers, Sequences, FiniteSets, Bags, TLC

VARIABLES
    attempts,          \* opts.attempts, read once from the configuration
    thread_count,      \* number of DnsScanThread workers started
    domain_file,       \* the lines of the domain list
    domain_count,      \* lines put on the queue so far
    mainpc,            \* "run" (putting, then waiting in join) or "done"
    task_queue,        \* Queue.Queue: the items waiting, oldest first
    unfinished_tasks,  \* Queue.unfinished_tasks
    th,                \* per worker: position and locals of run / fetchAndStore
    db,                \* committed rows (a bag)
    hist               \* per line of domain_file: how often it was dequeued
                       \* and marked done, and the parsers run on it with
                       \* their outcome (a record of the run, read by the
                       \* properties only)

vars == <<attempts, thread_count, domain_file, domain_count, mainpc,
          task_queue, unfinished_tasks, th, db, hist>>

----------------------------------------------------------------------------
(* Bounds of the model *)

MaxDomains == 3        \* longest domain list
MaxThreads == 2        \* largest worker pool
MaxAttempts == 2       \* largest configured retry count
MaxRRs == 2            \* most records of the target type in one answer
MaxSigs == 2           \* most RRSIGs in one answer
maxsize == 2           \* capacity of the task queue, 5000 in the code, scaled
                       \* down so that lists longer than the queue occur

(* Program constants *)

RCODE_SERVFAIL == 2
RR_TYPE_A == 1
RR_TYPE_AAAA == 28
RR_TYPE_DNSKEY == 48

----------------------------------------------------------------------------
(* Python values *)

PyNone == [kind |-> "None", neg |-> FALSE, bytes |-> <<>>]
PyInt(digits) == [kind |-> "int", neg |-> FALSE, bytes |-> digits]
PyMinusOne == [kind |-> "int", neg |-> TRUE, bytes |-> <<1>>]
buffer(s) == [kind |-> "buffer", neg |-> FALSE, bytes |-> s]

Min(a, b) == IF a < b THEN a ELSE b

\* s[a:b] for 0 <= a, 0 <= b: out-of-range bounds are clipped, never an error
PySlice(s, a, b) ==
    IF a >= Min(b, Len(s)) THEN <<>> ELSE SubSeq(s, a + 1, Min(b, Len(s)))

\* s[a:]
PySliceFrom(s, a) == PySlice(s, a, Len(s))

\* s.lstrip('\0')
lstrip0(s) ==
    LET nz == {i \in 1..Len(s) : s[i] # 0}
    IN  IF nz = {} THEN <<>>
        ELSE SubSeq(s, CHOOSE i \in nz : \A j \in nz : i <= j, Len(s))

\* int(hexlify(s), 16) for a non-empty s: the digits without leading zeros
IntOfBytes(s) == lstrip0(s)

\* a > b on digit sequences without leading zeros
RECURSIVE LexGreater(_, _)
LexGreater(a, b) ==
    IF a = <<>> THEN FALSE
    ELSE IF Head(a) # Head(b) THEN Head(a) > Head(b)
    ELSE LexGreater(Tail(a), Tail(b))

\* a >= b
DigitsAtLeast(a, b) ==
    \/ Len(a) > Len(b)
    \/ Len(a) = Len(b) /\ (a = b \/ LexGreater(a, b))

DigitsGreater(a, b) ==
    \/ Len(a) > Len(b)
    \/ Len(a) = Len(b) /\ LexGreater(a, b)

\* Every length that is at least SliceCap clips a slice the same way: no
\* public key of the model is that long.
SliceCap == 2 ^ 24

\* a << n
ShiftLeft(a, n) ==
    IF a = 0 THEN 0
    ELSE IF n > 16 THEN SliceCap
    ELSE Min(a * (2 ^ n), SliceCap)

----------------------------------------------------------------------------
(* DNSKEYParser: RSA public key decomposition *)

\* every algorithm taken for RSA, ECDSA P-256 (13) included
rsaAlgoIdsWithEc == {1, 5, 7, 8, 10, 13}

rsaAlgoIds == {1, 5, 7, 8, 10}

\* 9223372036854775807 = 0x7FFFFFFFFFFFFFFF
maxDbExp == <<127, 255, 255, 255, 255, 255, 255, 255>>

\* exp_len of the long form, as the source writes it:
\* ord(pubkey[1]) << 8 + ord(pubkey[2]); + binds tighter than <<
LongExpLenRFC(b1, b2) == (b1 * 256) + b2
LongExpLen(b1, b2) == ShiftLeft(b1, 8 + b2)

\* exp_len / exp_hdr_len, or the IndexError of ord(pubkey[k])
ExpHeader(pubkey) ==
    IF Len(pubkey) < 1 THEN [ok |-> FALSE, exp_len |-> 0, exp_hdr_len |-> 0]
    ELSE IF pubkey[1] > 0
         THEN [ok |-> TRUE, exp_len |-> pubkey[1], exp_hdr_len |-> 1]
    ELSE IF Len(pubkey) < 3
         THEN [ok |-> FALSE, exp_len |-> 0, exp_hdr_len |-> 0]
    ELSE [ok |-> TRUE, exp_len |-> LongExpLen(pubkey[2], pubkey[3]),
          exp_hdr_len |-> 3]

\* the modulus column: the bytes after the exponent, leading zeros stripped
ModulusNoStrip(pubkey, from) == buffer(PySliceFrom(pubkey, from))
Modulus(pubkey, from) == buffer(lstrip0(PySliceFrom(pubkey, from)))

\* where the modulus starts
ModulusStartNoHdr(h) == h.exp_len
ModulusStart(h) == h.exp_hdr_len + h.exp_len

NoRow == [ok |-> FALSE, table |-> "none"]

\* sql_data of one DNSKEY record, or NoRow when building it raises
DnskeyRow(domain, rr) ==
    IF rr.algo \in rsaAlgoIds
    THEN LET h == ExpHeader(rr.pubkey)
             e == PySlice(rr.pubkey, h.exp_hdr_len, ModulusStart(h))
         IN  IF ~h.ok \/ e = <<>> THEN NoRow   \* IndexError / ValueError
             ELSE IF DigitsGreater(IntOfBytes(e), maxDbExp)
             THEN [ok |-> TRUE, table |-> "dnskey_rr", domain |-> domain,
                   algo |-> rr.algo, rsa_exp |-> PyMinusOne,
                   rsa_mod |-> PyNone, other_key |-> buffer(rr.pubkey)]
             ELSE [ok |-> TRUE, table |-> "dnskey_rr", domain |-> domain,
                   algo |-> rr.algo, rsa_exp |-> PyInt(IntOfBytes(e)),
                   rsa_mod |-> Modulus(rr.pubkey, ModulusStart(h)),
                   other_key |-> PyNone]
    ELSE [ok |-> TRUE, table |-> "dnskey_rr", domain |-> domain,
          algo |-> rr.algo, rsa_exp |-> PyNone, rsa_mod |-> PyNone,
          other_key |-> buffer(rr.pubkey)]

\* sql_data of one A / AAAA record
AddrRow(domain, rr) ==
    [ok |-> TRUE, table |-> "aa_rr", domain |-> domain, addr |-> rr.addr]

\* sql_data of one RRSIG
RrsigRow(domain, rrType, rr) ==
    [ok |-> TRUE, table |-> "rrsig_rr", domain |-> domain,
     rr_type |-> rrType, keytag |-> rr.keytag]

----------------------------------------------------------------------------
(* What the resolver and the wire decoder hand to the program *)

NoPacket == [ok |-> FALSE, rrs |-> <<>>, rrsigs |-> <<>>]
Packet(rrs, rrsigs) == [ok |-> TRUE, rrs |-> rrs, rrsigs |-> rrsigs]

\* resolve() returned a non-zero status
RespError == [status |-> -2, rcode |-> 0, havedata |-> FALSE, packet |-> NoPacket]
\* status 0, no answer data, response code rc
RespRcode(rc) == [status |-> 0, rcode |-> rc, havedata |-> FALSE, packet |-> NoPacket]
\* status 0, answer data; the packet may still fail to parse
RespData(pkt) == [status |-> 0, rcode |-> 0, havedata |-> TRUE, packet |-> pkt]
NoResp == [status |-> 0, rcode |-> -1, havedata |-> FALSE, packet |-> NoPacket]

\* sequences over S of length lo..hi
SeqsOf(S, lo, hi) == UNION {[1..n -> S] : n \in lo..hi}

AddrRR == [addr : {"192.0.2.1"}]
SigRR == [keytag : {257}]

\* RSA/SHA-256, one exponent byte 3, modulus C1 55
GoodKey == [algo |-> 8, pubkey |-> <<1, 3, 193, 85>>]
\* RSA key with an empty public key: ord(pubkey[0]) raises
EmptyKey == [algo |-> 8, pubkey |-> <<>>]
\* ECDSA P-256 (13): not an RSA algorithm
EcKey == [algo |-> 13, pubkey |-> <<4, 0, 7>>]

----------------------------------------------------------------------------
(* The registered parsers, __main__ line 509 *)

\* the same classes registered with DNSKEYParser first
parsersDnskeyFirst == <<"DNSKEYParser", "AParser", "AAAAParser">>

parsers == <<"AParser", "AAAAParser", "DNSKEYParser">>

rrType(parserClass) ==
    CASE parserClass = "AParser" -> RR_TYPE_A
      [] parserClass = "AAAAParser" -> RR_TYPE_AAAA
      [] parserClass = "DNSKEYParser" -> RR_TYPE_DNSKEY

\* the row one record of the answer becomes (the body of the try block)
Row(parserClass, domain, rr) ==
    IF parserClass = "DNSKEYParser" THEN DnskeyRow(domain, rr)
    ELSE AddrRow(domain, rr)

----------------------------------------------------------------------------
(* Worker state *)

NoOut == [kind |-> "none", count |-> 0]

Idle == [pc |-> "get", item |-> 0, k |-> 0, attempt |-> 0, calls |-> 0,
         r |-> NoResp, i |-> 0, j |-> 0, failed |-> {}, sigfailed |-> {},
         pending |-> <<>>, sql_data |-> NoRow, nrows |-> 0, nsigs |-> 0,
         out |-> NoOut]

\* a parser instance about to run on the item the worker holds
Start(item, k) == [Idle EXCEPT !.pc = "fetch", !.item = item, !.k = k]

\* fetchAndStore returns n
Returned(t, n) == [t EXCEPT !.pc = "ret", !.out = [kind |-> "returned", count |-> n]]
\* an exception leaves fetchAndStore
Raised(t) == [t EXCEPT !.pc = "ret", !.out = [kind |-> "raised", count |-> 0]]

Workers == 1..thread_count

NoHist == [gets |-> 0, dones |-> 0, scans |-> <<>>]

InitWith(lists, threads, tries) ==
    /\ domain_file \in lists
    /\ thread_count \in threads
    /\ attempts \in tries
    /\ domain_count = 0
    /\ mainpc = "run"
    /\ task_queue = <<>>
    /\ unfinished_tasks = 0
    /\ th = [w \in 1..thread_count |-> Idle]
    /\ db = EmptyBag
    /\ hist = [n \in 1..Len(domain_file) |-> NoHist]

----------------------------------------------------------------------------
(* Queue.Queue *)

\* put() blocks while the queue is full
PutBlocksNever(q) == FALSE
PutBlocks(q) == Len(q) >= maxsize

\* join() returns when every put item has had its task_done
JoinReturnsOnEmpty(q, unfinished) == q = <<>>
JoinReturns(q, unfinished) == unfinished = 0

----------------------------------------------------------------------------
(* __main__: put every line, then join *)

Put ==
    /\ mainpc = "run"
    /\ domain_count < Len(domain_file)
    /\ ~PutBlocks(task_queue)
    /\ task_queue' = Append(task_queue, domain_count + 1)
    /\ unfinished_tasks' = unfinished_tasks + 1
    /\ domain_count' = domain_count + 1
    /\ UNCHANGED <<attempts, thread_count, domain_file, mainpc, th, db, hist>>

Join ==
    /\ mainpc = "run"
    /\ domain_count = Len(domain_file)
    /\ JoinReturns(task_queue, unfinished_tasks)
    /\ mainpc' = "done"
    /\ UNCHANGED <<attempts, thread_count, domain_file, domain_count,
                   task_queue, unfinished_tasks, th, db, hist>>

----------------------------------------------------------------------------
(* RRTypeParser.fetch: one pass of the body of `for i in range(attempts)` *)

FetchIterationRetry(resp) ==
    IF resp.status # 0 THEN "raise"
    ELSE IF resp.rcode # RCODE_SERVFAIL THEN "result"
    ELSE "retry"
FetchIteration(resp) ==
    IF resp.status # 0 THEN "raise"                    \* raise DnsError
    ELSE IF resp.rcode # RCODE_SERVFAIL THEN "result"  \* return result
    ELSE "none"                                        \* return None

\* result2pkt: ldns_wire2pkt's status decides
result2pktOk(resp) == resp.packet.ok

\* return rrs.rr_count()
ReturnCountStored(t) == t.nrows
ReturnCount(t) == Len(t.r.packet.rrs)

\* rrsigsStore starts, or has nothing to do and fetchAndStore returns
AfterRRLoopNoSigs(t) == Returned(t, ReturnCount(t))
AfterRRLoop(t) ==
    IF t.r.packet.rrsigs = <<>> THEN Returned(t, ReturnCount(t))
    ELSE [t EXCEPT !.pc = "sig", !.j = 0]

\* fetchAndStore after fetch has returned a result.  The resolver sets
\* havedata only when the answer holds records of the type asked for, so the
\* record loop runs at least once on a packet that parses.
AfterFetch(t) ==
    IF ~t.r.havedata THEN Returned(t, 0)
    ELSE IF ~result2pktOk(t.r) THEN Raised(t)     \* DnsError leaves fetchAndStore
    ELSE [t EXCEPT !.pc = "rr", !.i = 0]

\* except DnsError: return 0
OnDnsErrorPropagate(t) == Raised(t)
OnDnsError(t) == Returned(t, 0)

Fetch(w, env) ==
    /\ th[w].pc = "fetch"
    /\ LET t == th[w] IN
       IF t.attempt >= attempts
       THEN th' = [th EXCEPT ![w] = Returned(t, 0)]   \* fetch fell out of the loop
       ELSE \E resp \in env[parsers[t.k], domain_file[t.item]] :
              LET t1 == [t EXCEPT !.calls = @ + 1, !.attempt = @ + 1, !.r = resp]
                  step == FetchIteration(resp)
              IN  th' = [th EXCEPT ![w] =
                          CASE step = "raise" -> OnDnsError(t1)
                            [] step = "none" -> Returned(t1, 0)
                            [] step = "result" -> AfterFetch(t1)
                            [] OTHER -> t1]
    /\ UNCHANGED <<attempts, thread_count, domain_file, domain_count, mainpc,
                   task_queue, unfinished_tasks, db, hist>>

----------------------------------------------------------------------------
(* fetchAndStore: the loop over the records of the target type *)

\* the next index of `for i in range(rrs.rr_count())` after record i
\* (0-based), whether or not its try block raised
RRLoopNextAbort(i, n, raised) == IF raised THEN n ELSE i + 1
RRLoopNext(i, n, raised) == i + 1

\* try: build sql_data, cursor.execute
ExecuteRR(w) ==
    /\ th[w].pc = "rr"
    /\ LET t == th[w]
           row == Row(parsers[t.k], domain_file[t.item], t.r.packet.rrs[t.i + 1])
       IN  \E stored \in BOOLEAN :
             th' = [th EXCEPT ![w] =
                     IF row.ok /\ stored
                     THEN [t EXCEPT !.pc = "commit_rr", !.sql_data = row,
                                    !.pending = Append(@, row)]
                     ELSE [t EXCEPT !.pc = "commit_rr", !.sql_data = row,
                                    !.failed = @ \cup {t.i + 1}]]
    /\ UNCHANGED <<attempts, thread_count, domain_file, domain_count, mainpc,
                   task_queue, unfinished_tasks, db, hist>>

RECURSIVE BagOfSeq(_)
BagOfSeq(s) == IF s = <<>> THEN EmptyBag
               ELSE SetToBag({Head(s)}) (+) BagOfSeq(Tail(s))

\* conn.commit() on a store that keeps one copy of equal rows
CommitDistinct(store, pending) ==
    store (+) SetToBag({pending[n] : n \in 1..Len(pending)} \ BagToSet(store))

\* conn.commit(): the rows inserted since the last commit become part of the
\* store, next to whatever it holds
Commit(store, pending) == store (+) BagOfSeq(pending)

\* one commit after the loop instead of one per iteration
CommitsAtLoopEnd(next, n) == next >= n

\* conn.commit() stands in the finally clause of the loop body: it runs at the
\* end of every iteration, whether the INSERT succeeded or raised
CommitsNow(next, n) == TRUE

\* finally: conn.commit()
CommitRR(w) ==
    /\ th[w].pc = "commit_rr"
    /\ LET t == th[w]
           n == Len(t.r.packet.rrs)
           i1 == RRLoopNext(t.i, n, (t.i + 1) \in t.failed)
           t1 == IF CommitsNow(i1, n)
                 THEN [t EXCEPT !.pending = <<>>, !.nrows = @ + Len(t.pending),
                                !.i = i1]
                 ELSE [t EXCEPT !.i = i1]
       IN  /\ db' = IF CommitsNow(i1, n) THEN Commit(db, t.pending) ELSE db
           /\ th' = [th EXCEPT ![w] =
                       IF i1 < n THEN [t1 EXCEPT !.pc = "rr"]
                       ELSE AfterRRLoop(t1)]
    /\ UNCHANGED <<attempts, thread_count, domain_file, domain_count, mainpc,
                   task_queue, unfinished_tasks, hist>>

----------------------------------------------------------------------------
(* DnsMetadata.rrsigsStore: the loop over the RRSIGs of the answer section *)

SigLoopNextAbort(j, n, raised) == IF raised THEN n ELSE j + 1
SigLoopNext(j, n, raised) == j + 1

ExecuteSig(w) ==
    /\ th[w].pc = "sig"
    /\ LET t == th[w]
           row == RrsigRow(domain_file[t.item], rrType(parsers[t.k]),
                           t.r.packet.rrsigs[t.j + 1])
       IN  \E stored \in BOOLEAN :
             th' = [th EXCEPT ![w] =
                     IF stored
                     THEN [t EXCEPT !.pc = "commit_sig", !.sql_data = row,
                                    !.pending = Append(@, row)]
                     ELSE [t EXCEPT !.pc = "commit_sig", !.sql_data = row,
                                    !.sigfailed = @ \cup {t.j + 1}]]
    /\ UNCHANGED <<attempts, thread_count, domain_file, domain_count, mainpc,
                   task_queue, unfinished_tasks, db, hist>>

CommitSig(w) ==
    /\ th[w].pc = "commit_sig"
    /\ LET t == th[w]
           n == Len(t.r.packet.rrsigs)
           j1 == SigLoopNext(t.j, n, (t.j + 1) \in t.sigfailed)
           t1 == IF CommitsNow(j1, n)
                 THEN [t EXCEPT !.pending = <<>>, !.nsigs = @ + Len(t.pending),
                                !.j = j1]
                 ELSE [t EXCEPT !.j = j1]
       IN  /\ db' = IF CommitsNow(j1, n) THEN Commit(db, t.pending) ELSE db
           /\ th' = [th EXCEPT ![w] =
                       IF j1 < n THEN [t1 EXCEPT !.pc = "sig"]
                       ELSE Returned(t1, ReturnCount(t1))]
    /\ UNCHANGED <<attempts, thread_count, domain_file, domain_count, mainpc,
                   task_queue, unfinished_tasks, hist>>

----------------------------------------------------------------------------
(* DnsScanThread.run *)

Get(w) ==
    /\ th[w].pc = "get"
    /\ task_queue # <<>>
    /\ LET item == Head(task_queue) IN
       /\ th' = [th EXCEPT ![w] = Start(item, 1)]
       /\ hist' = [hist EXCEPT ![item].gets = @ + 1]
    /\ task_queue' = Tail(task_queue)
    /\ UNCHANGED <<attempts, thread_count, domain_file, domain_count, mainpc,
                   unfinished_tasks, db>>

\* `except Exception` around parser.fetchAndStore(conn)
RunCatchesNothing(out) == FALSE
RunCatches(out) == TRUE

\* the next index of `for parserClass in self.rr_scanners` after parser k
ParserLoopNextAbort(k, raised) == IF raised THEN Len(parsers) + 1 ELSE k + 1
ParserLoopNext(k, raised) == k + 1

\* fetchAndStore is over: the next parser, or the end of the parser loop
AfterParser(w) ==
    /\ th[w].pc = "ret"
    /\ LET t == th[w]
           raised == t.out.kind = "raised"
           k1 == ParserLoopNext(t.k, raised)
       IN  /\ hist' = [hist EXCEPT ![t.item].scans =
                          Append(@, [parser |-> parsers[t.k], out |-> t.out.kind,
                                     count |-> t.out.count,
                                     rows |-> t.nrows, sigs |-> t.nsigs])]
           /\ th' = [th EXCEPT ![w] =
                       IF raised /\ ~RunCatches(t.out)
                       THEN [Idle EXCEPT !.pc = "dead", !.item = t.item]
                       ELSE IF k1 <= Len(parsers) THEN Start(t.item, k1)
                       ELSE [Idle EXCEPT !.pc = "task_done", !.item = t.item]]
    /\ UNCHANGED <<attempts, thread_count, domain_file, domain_count, mainpc,
                   task_queue, unfinished_tasks, db>>

\* a task_done that leaves the count as it is
task_done_kept(unfinished) == unfinished

\* Queue.task_done: one unfinished task less
task_done(unfinished) == unfinished - 1

TaskDone(w) ==
    /\ th[w].pc = "task_done"
    /\ unfinished_tasks' = task_done(unfinished_tasks)
    /\ hist' = [hist EXCEPT ![th[w].item].dones = @ + 1]
    /\ th' = [th EXCEPT ![w] = Idle]
    /\ UNCHANGED <<attempts, thread_count, domain_file, domain_count, mainpc,
                   task_queue, db>>

----------------------------------------------------------------------------
(* The pool: lists up to MaxDomains lines, pools up to MaxThreads workers *)

ParserClasses == {parsers[k] : k \in 1..Len(parsers)}

\* line n of the list; the third line repeats the first domain
Line(n) == IF n % 2 = 1 THEN "broken.test" ELSE "signed.test"
DomainList(n) == [m \in 1..n |-> Line(m)]

\* The resolver's possible answers, per parser and domain.  broken.test:
\* every answer is a packet that does not parse.  signed.test: SERVFAIL for
\* A, a resolver error or an unparsable packet for AAAA, a DNSKEY answer
\* holding an RSA key with an empty public key and one RRSIG.
PoolEnv ==
    [p \in ParserClasses, d \in {"broken.test", "signed.test"} |->
       IF d = "broken.test" THEN {RespData(NoPacket)}
       ELSE CASE p = "AParser" -> {RespRcode(RCODE_SERVFAIL)}
              [] p = "AAAAParser" -> {RespError, RespData(NoPacket)}
              [] p = "DNSKEYParser" ->
                   {RespData(Packet(<<EmptyKey>>, <<[keytag |-> 257]>>))}]

Init == InitWith({DomainList(n) : n \in 0..MaxDomains}, 1..MaxThreads, {MaxAttempts})

Next ==
    \/ Put
    \/ Join
    \/ \E w \in Workers : Get(w)
    \/ \E w \in Workers : Fetch(w, PoolEnv)
    \/ \E w \in Workers : ExecuteRR(w)
    \/ \E w \in Workers : CommitRR(w)
    \/ \E w \in Workers : ExecuteSig(w)
    \/ \E w \in Workers : CommitSig(w)
    \/ \E w \in Workers : AfterParser(w)
    \/ \E w \in Workers : TaskDone(w)

Spec == Init /\ [][Next]_vars

\* threads are scheduled fairly and every call returns
Fairness ==
    /\ WF_vars(Put)
    /\ WF_vars(Join)
    /\ \A w \in 1..MaxThreads :
         /\ WF_vars(w \in Workers /\ Get(w))
         /\ WF_vars(w \in Workers /\ Fetch(w, PoolEnv))
         /\ WF_vars(w \in Workers /\ ExecuteRR(w))
         /\ WF_vars(w \in Workers /\ CommitRR(w))
         /\ WF_vars(w \in Workers /\ ExecuteSig(w))
         /\ WF_vars(w \in Workers /\ CommitSig(w))
         /\ WF_vars(w \in Workers /\ AfterParser(w))
         /\ WF_vars(w \in Workers /\ TaskDone(w))

SpecFair == Init /\ [][Next]_vars /\ Fairness

----------------------------------------------------------------------------
(* A call that never returns *)

\* resolver.resolve, cursor.execute or conn.commit does not return: the
\* worker stays inside the call, holding its domain; nothing reads its other
\* locals again
Hang(w) ==
    /\ th[w].pc \in {"fetch", "rr", "commit_rr", "sig", "commit_sig"}
    /\ th' = [th EXCEPT ![w] = [Idle EXCEPT !.pc = "hung", !.item = th[w].item,
                                            !.k = th[w].k]]
    /\ UNCHANGED <<attempts, thread_count, domain_file, domain_count, mainpc,
                   task_queue, unfinished_tasks, db, hist>>

\* what the resolver answers when it does return: one answer per query
HangEnv ==
    [p \in ParserClasses, d \in {"broken.test", "signed.test"} |->
       IF d = "broken.test" THEN {RespData(NoPacket)}
       ELSE CASE p = "AParser" -> {RespRcode(RCODE_SERVFAIL)}
              [] p = "AAAAParser" -> {RespError}
              [] p = "DNSKEYParser" ->
                   {RespData(Packet(<<EmptyKey>>, <<[keytag |-> 257]>>))}]

NextHang ==
    \/ Put
    \/ Join
    \/ \E w \in Workers : Get(w)
    \/ \E w \in Workers : Fetch(w, HangEnv)
    \/ \E w \in Workers : ExecuteRR(w)
    \/ \E w \in Workers : CommitRR(w)
    \/ \E w \in Workers : ExecuteSig(w)
    \/ \E w \in Workers : CommitSig(w)
    \/ \E w \in Workers : AfterParser(w)
    \/ \E w \in Workers : TaskDone(w)
    \/ \E w \in Workers : Hang(w)

\* threads are scheduled fairly; a call may hang, the calls that do return
\* return eventually
FairnessHang ==
    /\ WF_vars(Put)
    /\ WF_vars(Join)
    /\ \A w \in 1..MaxThreads :
         /\ WF_vars(w \in Workers /\ Get(w))
         /\ WF_vars(w \in Workers /\ Fetch(w, HangEnv))
         /\ WF_vars(w \in Workers /\ ExecuteRR(w))
         /\ WF_vars(w \in Workers /\ CommitRR(w))
         /\ WF_vars(w \in Workers /\ ExecuteSig(w))
         /\ WF_vars(w \in Workers /\ CommitSig(w))
         /\ WF_vars(w \in Workers /\ AfterParser(w))
         /\ WF_vars(w \in Workers /\ TaskDone(w))

SpecHang == Init /\ [][NextHang]_vars /\ FairnessHang

----------------------------------------------------------------------------
(* One worker, one domain: every answer the resolver can give *)

\* x padded on the left with zero bytes to n bytes
PadLeft(x, n) ==
    IF Len(x) >= n THEN x
    ELSE [i \in 1..n |-> IF i <= n - Len(x) THEN 0 ELSE x[i - (n - Len(x))]]

\* RFC 3110 public key with a one-byte exponent length n (1..255)
EncodeShort(n, e, m) == <<n>> \o PadLeft(e, n) \o m
\* RFC 3110 public key with a three-byte exponent length: 0, then n big-endian
EncodeLong(n, e, m) == <<0, n \div 256, n % 256>> \o PadLeft(e, n) \o m

\* exponents as digits: 0, 3, 65537, 2^63-2, 2^63-1, 2^63, 2^64-1, 2^64
ExpFixtures ==
    {<<>>, <<3>>, <<1, 0, 1>>,
     <<127, 255, 255, 255, 255, 255, 255, 254>>,
     <<127, 255, 255, 255, 255, 255, 255, 255>>,
     <<128, 0, 0, 0, 0, 0, 0, 0>>,
     <<255, 255, 255, 255, 255, 255, 255, 255>>,
     <<1, 0, 0, 0, 0, 0, 0, 0, 0>>}

\* moduli as written in the key, and as they are without leading zero bytes
ModFixtures ==
    {[m |-> <<>>, stripped |-> <<>>],
     [m |-> <<193, 85>>, stripped |-> <<193, 85>>],
     [m |-> <<1, 0>>, stripped |-> <<1, 0>>],
     [m |-> <<0, 7>>, stripped |-> <<7>>],
     [m |-> <<0, 0>>, stripped |-> <<>>]}

MaxPad == 1            \* most zero bytes in front of an encoded exponent
MaxRawLen == 3         \* longest public key made of arbitrary bytes

ShortParams ==
    {p \in [e : ExpFixtures, pad : 0..MaxPad, mod : ModFixtures] :
       Len(p.e) + p.pad >= 1}
ShortKey(p) == EncodeShort(Len(p.e) + p.pad, p.e, p.mod.m)

\* long form: the exponent length written in three bytes
LongLens == {1, 3, 256, 257}
LongParams ==
    {p \in [e : {<<3>>, <<1, 0, 1>>}, n : LongLens, mod : ModFixtures] :
       Len(p.e) <= p.n}
LongKey(p) == EncodeLong(p.n, p.e, p.mod.m)

RawKeys == SeqsOf({0, 1, 2}, 0, MaxRawLen)

KeyBlobs ==
    {ShortKey(p) : p \in ShortParams} \cup {LongKey(p) : p \in LongParams}
    \cup RawKeys

\* RSA/SHA-1, RSA/SHA-256, and ECDSA P-256 which is not RSA
KeyFixtures == [algo : {5, 8, 13}, pubkey : KeyBlobs]

NoAnswer == {RespRcode(0)}
Failures == {RespError, RespRcode(RCODE_SERVFAIL), RespRcode(0), RespData(NoPacket)}

AddrAnswers ==
    Failures \cup
    {RespData(Packet(rrs, sigs)) :
       rrs \in SeqsOf(AddrRR, 1, MaxRRs), sigs \in SeqsOf(SigRR, 0, MaxSigs)}

\* a.test: any A answer.  aaaa.test: any AAAA answer.  key.test: any DNSKEY
\* answer made of a good RSA key, an RSA key with an empty public key, an
\* ECDSA key.  rsa.test: DNSKEY answers with one key and one RRSIG.
ParserNames == {"a.test", "aaaa.test", "key.test", "rsa.test"}

ParserEnv ==
    [p \in ParserClasses, d \in ParserNames |->
       CASE d = "a.test" /\ p = "AParser" -> AddrAnswers
         [] d = "aaaa.test" /\ p = "AAAAParser" -> AddrAnswers
         [] d = "key.test" /\ p = "DNSKEYParser" ->
              Failures \cup
              {RespData(Packet(rrs, sigs)) :
                 rrs \in SeqsOf({GoodKey, EmptyKey, EcKey}, 1, MaxRRs),
                 sigs \in SeqsOf(SigRR, 0, MaxSigs)}
         [] d = "rsa.test" /\ p = "DNSKEYParser" ->
              {RespData(Packet(<<key>>, <<[keytag |-> 257]>>)) : key \in KeyFixtures}
         [] OTHER -> NoAnswer]

InitParser == InitWith({<<d>> : d \in ParserNames}, {1}, 0..MaxAttempts)

NextParser ==
    \/ Put
    \/ Join
    \/ \E w \in Workers : Get(w)
    \/ \E w \in Workers : Fetch(w, ParserEnv)
    \/ \E w \in Workers : ExecuteRR(w)
    \/ \E w \in Workers : CommitRR(w)
    \/ \E w \in Workers : ExecuteSig(w)
    \/ \E w \in Workers : CommitSig(w)
    \/ \E w \in Workers : AfterParser(w)
    \/ \E w \in Workers : TaskDone(w)

SpecParser == InitParser /\ [][NextParser]_vars

----------------------------------------------------------------------------
(* The same domain listed several times, the resolver answering each query *)
(* for it the same way every time                                          *)

MaxRuns == 3           \* most lines that name the same domain

RerunNames == {"host.test", "keys.test"}

\* the one answer the resolver gives for a (parser, domain) pair
Answer(parserClass, domain) ==
    CASE domain = "host.test" /\ parserClass = "AParser" ->
           RespData(Packet(<<[addr |-> "192.0.2.1"], [addr |-> "192.0.2.1"]>>,
                           <<[keytag |-> 257]>>))
      [] domain = "host.test" /\ parserClass = "AAAAParser" ->
           RespData(Packet(<<[addr |-> "192.0.2.1"]>>, <<>>))
      [] domain = "host.test" /\ parserClass = "DNSKEYParser" ->
           RespRcode(0)
      [] domain = "keys.test" /\ parserClass = "AParser" ->
           RespError
      [] domain = "keys.test" /\ parserClass = "AAAAParser" ->
           RespRcode(RCODE_SERVFAIL)
      [] domain = "keys.test" /\ parserClass = "DNSKEYParser" ->
           RespData(Packet(<<EmptyKey, GoodKey, EcKey>>, <<[keytag |-> 257]>>))

RerunEnv == [p \in ParserClasses, d \in RerunNames |-> {Answer(p, d)}]

InitRerun ==
    InitWith({[n \in 1..m |-> d] : m \in 1..MaxRuns, d \in RerunNames},
             {1}, {1})

NextRerun ==
    \/ Put
    \/ Join
    \/ \E w \in Workers : Get(w)
    \/ \E w \in Workers : Fetch(w, RerunEnv)
    \/ \E w \in Workers : ExecuteRR(w)
    \/ \E w \in Workers : CommitRR(w)
    \/ \E w \in Workers : ExecuteSig(w)
    \/ \E w \in Workers : CommitSig(w)
    \/ \E w \in Workers : AfterParser(w)
    \/ \E w \in Workers : TaskDone(w)

SpecRerun == InitRerun /\ [][NextRerun]_vars

----------------------------------------------------------------------------
(* Properties *)

\* the workers that hold line n: dequeued, task_done not yet called
Holders(n) == {w \in Workers : th[w].item = n}

\* the parser classes run on line n so far, in the order they were run
ParsersRun(n) == [k \in 1..Len(hist[n].scans) |-> hist[n].scans[k].parser]

FullyProcessed(n) ==
    /\ hist[n].gets = 1
    /\ hist[n].dones = 1
    /\ ParsersRun(n) = parsers
    /\ Holders(n) = {}

Lines == 1..Len(domain_file)

\* C1: every enqueued domain is dequeued by one worker and processed once,
\* under every interleaving; join returns only when every enqueued domain has
\* been dequeued, run through all parsers and marked done.
C1_ExactlyOnceAndDrained ==
    /\ \A n \in Lines :
         /\ hist[n].gets <= 1
         /\ hist[n].dones <= 1
         /\ Cardinality(Holders(n)) <= 1
         /\ Len(hist[n].scans) <= Len(parsers)
         /\ (n > domain_count => hist[n].gets = 0)
    /\ mainpc = "done" =>
         /\ domain_count = Len(domain_file)
         /\ task_queue = <<>>
         /\ \A n \in Lines : FullyProcessed(n)

C1_Witness ==
    /\ mainpc = "done"
    /\ Len(domain_file) = 3
    /\ thread_count = 2
    /\ \A n \in Lines : FullyProcessed(n)

\* C2: with fair scheduling and every call returning, the dispatcher
\* eventually returns from join, whatever failures occur.
C2_BatchCompletes == <>(mainpc = "done")

C2_Witness ==
    /\ mainpc = "done"
    /\ Len(domain_file) > maxsize
    /\ \E n \in Lines : \A k \in 1..3 : hist[n].scans[k].out = "raised"
    /\ \E n \in Lines : hist[n].scans[1].out = "returned"

\* C3: task_done is called once per dequeued domain, after every registered
\* parser was invoked, whether they returned or raised; a worker never stops
\* and goes back to dequeue.
C3_TaskDoneOnceAfterAllParsers ==
    /\ \A n \in Lines :
         /\ hist[n].dones <= hist[n].gets
         /\ hist[n].dones <= 1
         /\ (hist[n].dones = 1 => ParsersRun(n) = parsers)
         /\ (hist[n].gets = 1 /\ Holders(n) = {} => hist[n].dones = 1)
    /\ \A w \in Workers :
         /\ th[w].pc # "dead"
         /\ (th[w].pc = "task_done" =>
               ParsersRun(th[w].item) = parsers /\ hist[th[w].item].dones = 0)
         /\ (th[w].pc = "get" => th[w].item = 0)

C3_Witness ==
    /\ thread_count = 1
    /\ \E n \in Lines :
         /\ hist[n].dones = 1
         /\ Len(hist[n].scans) = 3
         /\ \A k \in 1..3 : hist[n].scans[k].out = "raised"
         /\ n + 1 \in Lines
         /\ hist[n + 1].gets = 1

\* C4: when every attempt returns a non-zero status, fetch calls the resolver
\* `attempts` times, and fetchAndStore returns 0 with no row stored.
C4_RetriedAttemptsTimes ==
    \A w \in Workers :
      LET t == th[w] IN
      (t.pc = "ret" /\ t.calls >= 1 /\ t.r.status # 0) =>
        /\ t.calls = attempts
        /\ t.out = [kind |-> "returned", count |-> 0]
        /\ t.nrows = 0 /\ t.nsigs = 0

\* C5: on SERVFAIL (status 0) fetch makes exactly one resolver call whatever
\* `attempts` is and returns None without raising; fetchAndStore returns 0
\* and stores no row.
C5_ServfailOneCall ==
    \A w \in Workers :
      LET t == th[w] IN
      (t.pc = "ret" /\ t.calls >= 1 /\ t.r.status = 0
         /\ t.r.rcode = RCODE_SERVFAIL) =>
        /\ t.calls = 1
        /\ t.out = [kind |-> "returned", count |-> 0]
        /\ t.nrows = 0 /\ t.nsigs = 0
        /\ t.sql_data = NoRow /\ t.pending = <<>>

C5_Witness ==
    \E w \in Workers :
      /\ th[w].pc = "ret"
      /\ parsers[th[w].k] = "DNSKEYParser"
      /\ attempts = 2
      /\ th[w].calls = 1
      /\ th[w].r = RespRcode(RCODE_SERVFAIL)
      /\ th[w].out = [kind |-> "returned", count |-> 0]

RECURSIVE SumCopies(_, _)
SumCopies(S, B) ==
    IF S = {} THEN 0
    ELSE LET x == CHOOSE y \in S : TRUE
         IN  CopiesIn(x, B) + SumCopies(S \ {x}, B)

\* committed rows of one table
CountRows(table) == SumCopies({x \in BagToSet(db) : x.table = table}, db)

TableOf(parserClass) ==
    IF parserClass = "DNSKEYParser" THEN "dnskey_rr" ELSE "aa_rr"

\* C6: when exactly one record of an answer fails to decode or store, at any
\* position, all its other records are stored: records minus one rows.
C6_OneFailureOthersStored ==
    \A w \in Workers :
      LET t == th[w] IN
      (t.pc = "ret" /\ t.r.havedata /\ t.r.packet.ok
         /\ Cardinality(t.failed) = 1) =>
        /\ t.out.kind = "returned"
        /\ t.nrows = Len(t.r.packet.rrs) - 1
        /\ CountRows(TableOf(parsers[t.k])) = Len(t.r.packet.rrs) - 1
        /\ t.pending = <<>>

C6_Witness ==
    \E w \in Workers :
      /\ th[w].pc = "ret"
      /\ parsers[th[w].k] = "DNSKEYParser"
      /\ th[w].r.packet.rrs = <<EmptyKey, GoodKey>>
      /\ th[w].failed = {1}
      /\ CountRows("dnskey_rr") = 1

\* a resolver error status, or an answer packet that does not parse
PairFailed(t) ==
    /\ t.calls >= 1
    /\ \/ t.r.status # 0
       \/ t.r.status = 0 /\ t.r.rcode # RCODE_SERVFAIL /\ t.r.havedata
          /\ ~t.r.packet.ok

\* C7: a resolver error or an unparsable packet for one (domain, RR type)
\* writes no row for that pair, and the remaining parsers still run for the
\* domain, and later domains are still scanned.
C7_PairFailureIsolated ==
    /\ \A w \in Workers :
         LET t == th[w] IN
         /\ (t.pc = "ret" /\ PairFailed(t) =>
               t.nrows = 0 /\ t.nsigs = 0 /\ t.pending = <<>>
               /\ t.sql_data = NoRow)
         /\ t.pc # "dead"
         /\ (t.pc \in {"fetch", "rr", "commit_rr", "sig", "commit_sig", "ret"} =>
               t.k = Len(hist[t.item].scans) + 1)
         /\ (t.pc = "task_done" => Len(hist[t.item].scans) = Len(parsers))
    /\ mainpc = "done" => \A n \in Lines : ParsersRun(n) = parsers

C7_Witness ==
    /\ \E w \in Workers : th[w].pc = "ret" /\ th[w].r = RespError /\ th[w].k = 2
    /\ \E n \in Lines :
         /\ hist[n].dones = 1
         /\ hist[n].scans[1].out = "raised"
         /\ ParsersRun(n) = parsers
         /\ \E m \in Lines : m > n /\ hist[m].gets = 1

\* fetch returned a result that carries answer data
HasData(t) ==
    t.calls >= 1 /\ t.r.status = 0 /\ t.r.rcode # RCODE_SERVFAIL /\ t.r.havedata

\* C8: with answer data fetchAndStore returns the number of records of the
\* target type in the answer, failed or not; without a result or without
\* answer data it returns 0 and inserts nothing.
C8_ReturnsRecordCount ==
    \A w \in Workers :
      LET t == th[w] IN
      (t.pc = "ret" /\ t.out.kind = "returned") =>
        IF HasData(t)
        THEN t.out.count = Len(t.r.packet.rrs)
        ELSE /\ t.out.count = 0
             /\ t.nrows = 0 /\ t.nsigs = 0
             /\ t.sql_data = NoRow /\ t.failed = {} /\ t.sigfailed = {}

C8_Witness ==
    \E w \in Workers :
      /\ th[w].pc = "ret"
      /\ th[w].out = [kind |-> "returned", count |-> 2]
      /\ th[w].failed = {1, 2}
      /\ th[w].nrows = 0

\* the record whose row the worker has just built
CurrentRR(t) == t.r.packet.rrs[t.i + 1]

AtDnskeyRow(t, pubkey) ==
    /\ t.pc = "commit_rr"
    /\ parsers[t.k] = "DNSKEYParser"
    /\ CurrentRR(t).algo \in rsaAlgoIds
    /\ CurrentRR(t).pubkey = pubkey

\* C9: in the long form the exponent length is byte1 * 256 + byte2, the
\* exponent is that many bytes from offset 3, the modulus the bytes after.
C9_LongFormLength ==
    \A w \in Workers : \A p \in LongParams :
      AtDnskeyRow(th[w], LongKey(p)) =>
        /\ ExpHeader(LongKey(p)).exp_len = p.n
        /\ th[w].sql_data.ok
        /\ th[w].sql_data.rsa_exp = PyInt(p.e)
        /\ th[w].sql_data.rsa_mod = buffer(p.mod.stripped)

\* exponents E of the fixtures with 0 < E <= 2^63 - 1
InRangeExps ==
    {<<3>>, <<1, 0, 1>>,
     <<127, 255, 255, 255, 255, 255, 255, 254>>,
     <<127, 255, 255, 255, 255, 255, 255, 255>>}

\* C10: a short-form key [L] ++ bytes(E) ++ M with 0 < E <= 2^63-1 is stored
\* as exponent E and modulus M, leading zero bytes of M stripped.
C10_ShortFormRoundTrip ==
    \A w \in Workers : \A p \in ShortParams :
      (AtDnskeyRow(th[w], ShortKey(p)) /\ p.e \in InRangeExps) =>
        /\ th[w].sql_data.ok
        /\ th[w].sql_data.table = "dnskey_rr"
        /\ th[w].sql_data.rsa_exp = PyInt(p.e)
        /\ th[w].sql_data.rsa_mod = buffer(p.mod.stripped)
        /\ th[w].sql_data.other_key = PyNone

C10_Witness ==
    \E w \in Workers :
      /\ AtDnskeyRow(th[w], <<9, 0, 127, 255, 255, 255, 255, 255, 255, 255, 0, 7>>)
      /\ th[w].sql_data.ok
      /\ th[w].sql_data.rsa_exp = PyInt(<<127, 255, 255, 255, 255, 255, 255, 255>>)
      /\ th[w].sql_data.rsa_mod = buffer(<<7>>)

\* exponents of the fixtures above 2^63 - 1: 2^63, 2^64 - 1, 2^64
OverCeilingExps ==
    {<<128, 0, 0, 0, 0, 0, 0, 0>>,
     <<255, 255, 255, 255, 255, 255, 255, 255>>,
     <<1, 0, 0, 0, 0, 0, 0, 0, 0>>}

\* the row that carries the whole public key instead of exponent and modulus
SentinelRow(row, pubkey) ==
    /\ row.ok
    /\ row.table = "dnskey_rr"
    /\ row.rsa_exp = PyMinusOne
    /\ row.rsa_mod = PyNone
    /\ row.other_key = buffer(pubkey)

\* C11: an RSA key whose exponent exceeds 2^63-1 is stored with exponent -1,
\* no modulus and the whole public key as the opaque key; an exponent equal
\* to 2^63-1 is still stored as exponent and modulus.
C11_CeilingSentinel ==
    \A w \in Workers : \A p \in ShortParams :
      AtDnskeyRow(th[w], ShortKey(p)) =>
        /\ (p.e \in OverCeilingExps => SentinelRow(th[w].sql_data, ShortKey(p)))
        /\ (p.e = maxDbExp =>
              /\ th[w].sql_data.ok
              /\ th[w].sql_data.rsa_exp = PyInt(maxDbExp)
              /\ th[w].sql_data.rsa_mod = buffer(p.mod.stripped)
              /\ th[w].sql_data.other_key = PyNone)

C11_Witness ==
    \E w \in Workers :
      /\ AtDnskeyRow(th[w], <<8, 128, 0, 0, 0, 0, 0, 0, 0, 0, 7>>)
      /\ th[w].sql_data.rsa_exp = PyMinusOne
      /\ th[w].sql_data.rsa_mod = PyNone
      /\ th[w].sql_data.other_key = buffer(<<8, 128, 0, 0, 0, 0, 0, 0, 0, 0, 7>>)
      /\ th[w].pending = <<th[w].sql_data>>

\* exponent >= 0 and modulus set, opaque key unset
DecomposedShape(row) ==
    /\ row.rsa_exp.kind = "int" /\ ~row.rsa_exp.neg
    /\ row.rsa_mod.kind = "buffer"
    /\ row.other_key = PyNone

\* exponent = -1, modulus unset, opaque key set
SentinelShape(row) ==
    /\ row.rsa_exp = PyMinusOne
    /\ row.rsa_mod = PyNone
    /\ row.other_key.kind = "buffer"

\* exponent and modulus unset, opaque key set
OpaqueShape(row) ==
    /\ row.rsa_exp = PyNone
    /\ row.rsa_mod = PyNone
    /\ row.other_key.kind = "buffer"

\* C12: every DNSKEY row handed to storage has, for the RSA algorithms 1, 5,
\* 7, 8, 10, either exponent >= 0 with the modulus set and no opaque key, or
\* exponent -1 with no modulus and the raw public key as opaque key; for any
\* other algorithm no exponent, no modulus and the raw public key.
C12_RowShape ==
    /\ \A w \in Workers :
         LET t == th[w] IN
         (t.pc = "commit_rr" /\ parsers[t.k] = "DNSKEYParser" /\ t.sql_data.ok) =>
           IF CurrentRR(t).algo \in {1, 5, 7, 8, 10}
           THEN \/ DecomposedShape(t.sql_data)
                \/ /\ SentinelShape(t.sql_data)
                   /\ t.sql_data.other_key = buffer(CurrentRR(t).pubkey)
           ELSE /\ OpaqueShape(t.sql_data)
                /\ t.sql_data.other_key = buffer(CurrentRR(t).pubkey)
    /\ \A row \in BagToSet(db) :
         row.table = "dnskey_rr" =>
           IF row.algo \in {1, 5, 7, 8, 10}
           THEN DecomposedShape(row) \/ SentinelShape(row)
           ELSE OpaqueShape(row)

C12_Witness ==
    \E w \in Workers :
      /\ th[w].pc = "commit_rr"
      /\ th[w].r.packet.rrs = <<GoodKey, EcKey>>
      /\ th[w].i = 1
      /\ th[w].sql_data.algo = 13
      /\ th[w].sql_data.other_key = buffer(<<4, 0, 7>>)
      /\ th[w].sql_data.rsa_exp = PyNone
      /\ \E row \in BagToSet(db) :
           row.algo = 8 /\ row.rsa_exp = PyInt(<<3>>) /\ row.other_key = PyNone

\* a worker inside fetchAndStore of its k-th parser, or just out of it
InParser(t) == t.pc \in {"fetch", "rr", "commit_rr", "sig", "commit_sig", "ret"}

\* C13: for every domain and every worker the parsers are invoked in the
\* order A, AAAA, DNSKEY; parser k+1 is started for a domain only after
\* parser k returned or raised for that domain.
C13_FixedParserOrder ==
    /\ \A n \in Lines :
         /\ Len(hist[n].scans) <= 3
         /\ ParsersRun(n) =
              SubSeq(<<"AParser", "AAAAParser", "DNSKEYParser">>,
                     1, Len(hist[n].scans))
         /\ \A k \in 1..Len(hist[n].scans) :
              hist[n].scans[k].out \in {"returned", "raised"}
    /\ \A w \in Workers :
         LET t == th[w] IN
         InParser(t) =>
           /\ t.k \in 1..3
           /\ parsers[t.k] = <<"AParser", "AAAAParser", "DNSKEYParser">>[t.k]
           /\ Len(hist[t.item].scans) = t.k - 1
           /\ (t.pc # "ret" => t.out = NoOut)

C13_Witness ==
    /\ thread_count = 2
    /\ th[1].pc = "fetch" /\ th[1].k = 3 /\ Len(hist[th[1].item].scans) = 2
    /\ th[2].pc = "fetch" /\ th[2].k = 2
    /\ Len(hist[th[2].item].scans) = 1
    /\ hist[th[2].item].scans[1].parser = "AParser"
    /\ hist[th[2].item].scans[1].out = "raised"
    /\ \E n \in Lines : hist[n].dones = 1

\* the lines waiting in the queue
Queued == {task_queue[i] : i \in 1..Len(task_queue)}

\* C14: the task queue never holds more items than its capacity; put is
\* enabled only below capacity, and a full queue makes the producer wait:
\* every line put so far and not yet dequeued is still in the queue, once,
\* in the order of the file.
C14_QueueBounded ==
    /\ Len(task_queue) <= maxsize
    /\ (Len(task_queue) >= maxsize => ~ENABLED Put)
    /\ (ENABLED Put => Len(task_queue) < maxsize)
    /\ Queued = {n \in 1..domain_count : hist[n].gets = 0}
    /\ \A i, j \in 1..Len(task_queue) : i < j => task_queue[i] < task_queue[j]

C14_Witness ==
    /\ Len(task_queue) = maxsize
    /\ domain_count < Len(domain_file)
    /\ mainpc = "run"
    /\ ~ENABLED Put
    /\ \A w \in Workers : th[w].pc = "get"

\* fetchAndStore is over, every record and every RRSIG of the answer was
\* well-formed and its INSERT succeeded
AllStored(t) ==
    /\ t.pc = "ret"
    /\ HasData(t)
    /\ t.r.packet.ok
    /\ t.failed = {}
    /\ t.sigfailed = {}

\* C15: an answer with k well-formed records of the target type and s
\* well-formed RRSIGs, storage succeeding, makes fetchAndStore return k and
\* leaves exactly k record rows and s signature rows.
C15_EndToEndCounts ==
    \A w \in Workers :
      LET t == th[w] IN
      AllStored(t) =>
        /\ t.out = [kind |-> "returned", count |-> Len(t.r.packet.rrs)]
        /\ t.nrows = Len(t.r.packet.rrs)
        /\ t.nsigs = Len(t.r.packet.rrsigs)
        /\ t.pending = <<>>
        /\ CountRows(TableOf(parsers[t.k])) = Len(t.r.packet.rrs)
        /\ CountRows("rrsig_rr") = Len(t.r.packet.rrsigs)
        /\ \A row \in BagToSet(db) : row.domain = domain_file[t.item]

C15_Witness ==
    \E w \in Workers :
      /\ AllStored(th[w])
      /\ th[w].r.packet = Packet(<<GoodKey>>, <<[keytag |-> 257]>>)
      /\ th[w].out = [kind |-> "returned", count |-> 1]
      /\ db = SetToBag({
             [ok |-> TRUE, table |-> "dnskey_rr", domain |-> "rsa.test",
              algo |-> 8, rsa_exp |-> PyInt(<<3>>),
              rsa_mod |-> buffer(<<193, 85>>), other_key |-> PyNone],
             [ok |-> TRUE, table |-> "rrsig_rr", domain |-> "rsa.test",
              rr_type |-> RR_TYPE_DNSKEY, keytag |-> 257]})

\* the records of an answer whose row can be built
WellFormed(parserClass, domain, resp) ==
    {i \in 1..Len(resp.packet.rrs) : Row(parserClass, domain, resp.packet.rrs[i]).ok}

\* what fetchAndStore returns for an answer
ExpectedCount(resp) ==
    IF resp.status = 0 /\ resp.rcode # RCODE_SERVFAIL /\ resp.havedata
       /\ resp.packet.ok
    THEN Len(resp.packet.rrs) ELSE 0

\* the rows one run of one parser stores when every INSERT succeeds
OneParserRows(parserClass, domain) ==
    LET resp == Answer(parserClass, domain)
        rows == [i \in 1..Len(resp.packet.rrs) |->
                   Row(parserClass, domain, resp.packet.rrs[i])]
        sigs == [j \in 1..Len(resp.packet.rrsigs) |->
                   RrsigRow(domain, rrType(parserClass), resp.packet.rrsigs[j])]
        IsOk(row) == row.ok
    IN  IF ExpectedCount(resp) = 0 THEN EmptyBag
        ELSE BagOfSeq(SelectSeq(rows, IsOk)) (+) BagOfSeq(sigs)

\* the rows one run of all parsers stores for a domain
OneRun(domain) ==
    OneParserRows("AParser", domain) (+) OneParserRows("AAAAParser", domain)
      (+) OneParserRows("DNSKEYParser", domain)

\* no INSERT failed in the k-th scan of line n
CleanScan(n, k) ==
    LET resp == Answer(parsers[k], domain_file[n])
    IN  ExpectedCount(resp) > 0 =>
          /\ hist[n].scans[k].rows =
               Cardinality(WellFormed(parsers[k], domain_file[n], resp))
          /\ hist[n].scans[k].sigs = Len(resp.packet.rrsigs)

AllClean == \A n \in Lines : \A k \in 1..Len(hist[n].scans) : CleanScan(n, k)

RunsDone == Cardinality({n \in Lines : hist[n].dones = 1})

\* C16: every run of fetchAndStore for the same domain against the same
\* answer returns the same count and appends the same rows: after m runs
\* whose INSERTs succeeded the store holds m copies of the rows of one run.
C16_RerunAppends ==
    /\ \A n \in Lines : \A k \in 1..Len(hist[n].scans) :
         /\ hist[n].scans[k].count =
              ExpectedCount(Answer(parsers[k], domain_file[n]))
         /\ (Len(hist[1].scans) >= k =>
               /\ hist[n].scans[k].out = hist[1].scans[k].out
               /\ hist[n].scans[k].count = hist[1].scans[k].count
               /\ ((CleanScan(n, k) /\ CleanScan(1, k)) =>
                     /\ hist[n].scans[k].rows = hist[1].scans[k].rows
                     /\ hist[n].scans[k].sigs = hist[1].scans[k].sigs))
    /\ (AllClean /\ \A w \in Workers : th[w].pc = "get") =>
         \A row \in BagToSet(db) \cup BagToSet(OneRun(domain_file[1])) :
           CopiesIn(row, db) = RunsDone * CopiesIn(row, OneRun(domain_file[1]))

C16_Witness ==
    /\ domain_file = <<"keys.test", "keys.test", "keys.test">>
    /\ mainpc = "done"
    /\ AllClean
    /\ RunsDone = 3
    /\ CopiesIn([ok |-> TRUE, table |-> "dnskey_rr", domain |-> "keys.test",
                 algo |-> 8, rsa_exp |-> PyInt(<<3>>),
                 rsa_mod |-> buffer(<<193, 85>>), other_key |-> PyNone], db) = 3
    /\ CountRows("dnskey_rr") = 6
    /\ CountRows("rrsig_rr") = 3

\* at most one uncommitted row, and only between an INSERT and its commit
OneRowPending ==
    \A w \in Workers :
      LET t == th[w] IN
      /\ Len(t.pending) <= 1
      /\ (t.pending # <<>> =>
            t.pc \in {"commit_rr", "commit_sig"} /\ t.pending = <<t.sql_data>>)

\* an INSERT attempt is followed by a commit, the commit makes exactly the
\* pending row durable, and no step commits more than one row
CommitPerInsert ==
    /\ \A w \in Workers :
         LET t == th[w]
             u == th'[w]
         IN  /\ (t.pc = "rr" /\ u # t => u.pc = "commit_rr" /\ db' = db)
             /\ (t.pc = "sig" /\ u # t => u.pc = "commit_sig" /\ db' = db)
             /\ (t.pc \in {"commit_rr", "commit_sig"} /\ u # t =>
                   /\ u.pc \in {"rr", "sig", "ret"}
                   /\ u.pending = <<>>
                   /\ db' = db (+) BagOfSeq(t.pending))
    /\ BagCardinality(db') <= BagCardinality(db) + 1

\* C17: every INSERT attempt on a connection, of a record row or an RRSIG
\* row, succeeding or failing, is followed by one commit before the next
\* INSERT attempt; a connection never holds more than one uncommitted row,
\* and no commit covers rows of more than one record.
C17_RowIsCommitUnit == [](OneRowPending) /\ [][CommitPerInsert]_vars

C17_Witness ==
    \E w \in Workers :
      /\ th[w].pc = "commit_sig"
      /\ th[w].pending = <<th[w].sql_data>>
      /\ th[w].sql_data.table = "rrsig_rr"
      /\ Len(th[w].r.packet.rrs) = 2
      /\ th[w].failed = {1}
      /\ th[w].nrows = 1
      /\ BagCardinality(db) = 1

\* C18: the RRSIGs of the answer are stored only after the loop over all
\* records of the target type has finished, also when some or all of those
\* records failed; a failing RRSIG does not keep the remaining RRSIGs of the
\* answer from being stored.
C18_SigsAfterRRLoop ==
    \A w \in Workers :
      LET t == th[w]
          nrr == Len(t.r.packet.rrs)
          nsig == Len(t.r.packet.rrsigs)
      IN  /\ (t.pc \in {"rr", "commit_rr"} =>
                t.j = 0 /\ t.nsigs = 0 /\ t.sigfailed = {}
                /\ \A n \in 1..Len(t.pending) : t.pending[n].table # "rrsig_rr")
          /\ (t.pc \in {"sig", "commit_sig"} \/ t.nsigs > 0 \/ t.sigfailed # {} =>
                /\ t.i = nrr
                /\ t.nrows + Cardinality(t.failed) = nrr
                /\ \A n \in 1..Len(t.pending) : t.pending[n].table = "rrsig_rr")
          /\ (t.pc = "ret" /\ HasData(t) /\ t.r.packet.ok =>
                /\ t.i = nrr
                /\ t.j = nsig
                /\ t.nsigs + Cardinality(t.sigfailed) = nsig
                /\ t.out.kind = "returned")

C18_Witness ==
    \E w \in Workers :
      /\ th[w].pc = "ret"
      /\ Len(th[w].r.packet.rrs) = 2
      /\ th[w].failed = {1, 2}
      /\ Len(th[w].r.packet.rrsigs) = 2
      /\ th[w].sigfailed = {1}
      /\ th[w].nsigs = 1
      /\ CountRows("rrsig_rr") = 1
      /\ BagCardinality(db) = 1

\* workers that hold a domain: dequeued, task_done not yet called
Holding == {w \in Workers : th[w].item # 0}

\* C20: unfinished_tasks is the number of domains in the queue plus the
\* number of domains held by workers; it is never negative, and it is zero
\* exactly when every domain put so far has been fully processed.
C20_UnfinishedAccounting ==
    /\ unfinished_tasks = Len(task_queue) + Cardinality(Holding)
    /\ unfinished_tasks >= 0
    /\ \A w \in Workers : (th[w].pc = "get") = (th[w].item = 0)
    /\ (unfinished_tasks = 0) =
         (\A n \in 1..domain_count :
            hist[n].dones = 1 /\ ParsersRun(n) = parsers /\ Holders(n) = {})

C20_Witness ==
    /\ thread_count = 2
    /\ unfinished_tasks = 3
    /\ Len(task_queue) = 1
    /\ Cardinality(Holding) = 2
    /\ \E w \in Workers : th[w].pc = "task_done"

Hung == {w \in Workers : th[w].pc = "hung"}

\* every line is done, or held by a worker that hangs
RestCompleted == \A n \in Lines : hist[n].dones = 1 \/ Holders(n) \cap Hung # {}

\* a worker that hangs stays in the call, with its domain
HungForever == \A w \in Hung : th'[w] = th[w]

\* C19: when a worker never returns from a resolver or storage call, the
\* other workers still dequeue and complete every remaining domain, and
\* join never returns.
C19_HungWorkerStallsBatch ==
    /\ [](Hung # {} =>
            mainpc = "run" /\ unfinished_tasks >= Cardinality(Hung) /\ ~ENABLED Join)
    /\ [][HungForever]_vars
    /\ <>(Hung = Workers \/ RestCompleted)

C19_Witness ==
    /\ thread_count = 2
    /\ Len(domain_file) = 3
    /\ th[1].pc = "hung" /\ th[1].item = 1
    /\ th[2].pc = "get"
    /\ hist[2].dones = 1 /\ hist[3].dones = 1
    /\ task_queue = <<>>
    /\ mainpc = "run"
    /\ ~ENABLED Join

====
